---- MODULE Spec2Model ----
(***************************************************************************)
(* A model of the fugue task layer (fugue/workflow/_tasks.py), of the      *)
(* Spark execution engine adapter (fugue_spark/execution_engine.py) and of *)
(* the case normalization of FugueSQL code (fugue_sql/parse.py).           *)
(*                                                                         *)
(* Nine specifications share one set of variables:                         *)
(*   Spec        a workflow run: a DAG of Create/Process/Output tasks      *)
(*               executed in dependency order against the engine           *)
(*   SpecEngine  threads calling broadcast/persist/register on the engine  *)
(*   SpecMap     the two map strategies (_Mapper.run, _udf) with retries   *)
(*   SpecTask    the public operations of constructed tasks and __uuid__   *)
(*   SpecApi     one caller constructing the engine, then to_df and join   *)
(*   SpecNew     the constructors of the task classes                      *)
(*   SpecPart    one caller calling repartition on the engine              *)
(*   SpecSql     one caller calling register and SparkSQLEngine.select     *)
(*   SpecCase    the case normalization of FugueSQL applied to a code      *)
(***************************************************************************)
EXTENDS Integers, Sequences, FiniteSets, TLC

\* ------------------------------------------------------------------ bounds
MaxCalls == 2       \* engine calls made by the threads of SpecEngine
NThreads == 2       \* threads of SpecEngine
NDfs == 2           \* dataframe instances held by the callers of SpecEngine
NParts == 2         \* physical partitions of SpecMap
MaxRows == 2        \* rows of one physical partition
MaxAttempts == 2    \* times the backend runs one partition (first run, retries)
NTasks == 4         \* tasks of the workflow of Spec
MaxNew == 2         \* constructor calls of SpecNew that made a task
MaxCode == 4        \* characters of a FugueSQL code of SpecCase

VARIABLES
  eng,      \* the SparkExecutionEngine: object heap, RunOnce stores, backend
  thr,      \* per thread: position inside broadcast/persist/register
  holder,   \* RunOnce._locks: per guard and key, the thread holding the lock
  rets,     \* per operation and caller dataframe: the results returned so far
  ncalls,   \* calls started so far
  mapper,   \* the _Mapper: partition_spec.empty, whether on_init is given
  prows,    \* per physical partition: the partition keys of its rows, in order
  attempts, \* per physical partition: times the backend has run it
  initCalls,\* the partition numbers on_init was invoked with, in order
  mapCalls, \* the cursors map_func was invoked with, in order
  yielded,  \* per physical partition: rows yielded by its latest run
  vec,      \* the vectorized strategy: per partition the groups handed to
            \* _udf, the on_init_once store, the calls made, the results
  task,     \* the task objects: construction arguments and hints
  deps,     \* per task: the tasks whose output slot feeds its input slots
  wf,       \* the run: FugueWorkflowContext results, ctx.outputs, progress
  hist,     \* SpecTask: the identity at construction, the hints asked for,
            \* the last public operation and what it raised
  api       \* SpecApi: the configuration layers and the merged configuration
            \* of the engine, the last call and what it did

engVars == <<eng, thr, holder, rets, ncalls>>
mapVars == <<mapper, prows, attempts, initCalls, mapCalls, yielded, vec>>
wfVars == <<task, deps, wf, hist>>
apiVars == <<api>>
vars == <<eng, thr, holder, rets, ncalls,
          mapper, prows, attempts, initCalls, mapCalls, yielded, vec,
          task, deps, wf, hist, api>>

\* ------------------------------------------------------- python values
\* A python value is its type and its str(); str(None) = "None", str of a
\* string is the string itself.
PyNone == [t |-> "NoneType", s |-> "None"]
PyStr(x) == [t |-> "str", s |-> x]
Str(v) == v.s

\* -------------------------------------------------------------- the heap
\* object addresses (values of id()): enough for every object a run makes
MaxAddr ==
  IF NDfs + 2 * MaxCalls > 3 * NTasks THEN NDfs + 2 * MaxCalls ELSE 3 * NTasks
Addr == 1..MaxAddr
Threads == 1..NThreads
DFs == 1..NDfs
DataIds == 1..(IF NDfs > NTasks THEN NDfs ELSE NTasks)
Ops == {"broadcast", "persist", "register"}
Names == {"a", "b"}
NoKey == 0
NoView == 0
Free == [kind |-> "free", data |-> 0, bc |-> FALSE]
SparkObj(d, b) == [kind |-> "spark", data |-> d, bc |-> b]
OtherObj(d) == [kind |-> "other", data |-> d, bc |-> FALSE]

\* names of pyspark.StorageLevel found in StorageLevel.__dict__
StorageLevelNames == {"MEMORY_ONLY", "MEMORY_AND_DISK", "DISK_ONLY"}
Levels == {PyNone, PyStr("MEMORY_ONLY"), PyStr("bad")}

\* id() of a new object: any address no live object occupies; the addresses
\* never used so far are interchangeable, so only the lowest one is offered
Candidates(e) ==
  {a \in 1..e.hw : e.heap[a] = Free}
    \cup (IF e.hw < MaxAddr THEN {e.hw + 1} ELSE {})

\* the addresses offered to a step that makes a new object (none otherwise)
PicksFor(e, allocates) == IF allocates THEN Candidates(e) ELSE {0}

Alloc(e, pick, obj) ==
  [e EXCEPT !.heap[pick] = obj, !.hw = IF pick > e.hw THEN pick ELSE e.hw]

StoreRange(e) == {e.store[op][k] : op \in Ops, k \in Addr} \ {NoKey}

\* a temporary made by to_df dies when the call returns unless a RunOnce
\* store still refers to it
Release(e, a, tmp) ==
  IF tmp /\ a \notin StoreRange(e) THEN [e EXCEPT !.heap[a] = Free] ELSE e

\* to_df(df) for a DataFrame df without schema and metadata
to_df_convert(e, a, pick) ==
  [eng |-> Alloc(e, pick, SparkObj(e.heap[a].data, FALSE)),
   df |-> pick, tmp |-> TRUE]

to_df(e, a, pick) ==
  IF e.heap[a].kind = "spark"
  THEN [eng |-> e, df |-> a, tmp |-> FALSE]
  ELSE to_df_convert(e, a, pick)

\* the key function of the three RunOnce guards: id(args[0])
KeyFunc(a) == a

\* whether _persist accepts the level
LevelOk(level) ==
  \/ level = PyNone
  \/ level.t = "str" /\ level.s \in StorageLevelNames

Count(e, op, k) ==
  [e EXCEPT !.nAction[op][k] = @ + 1, !.trig[op][e.heap[k].data] = @ + 1]

\* the guarded backend actions; each gives the engine after the action, the
\* dataframe returned and whether it raised
_broadcast(e, a, pick) ==
  [eng |-> Alloc(Count(e, "broadcast", a), pick, SparkObj(e.heap[a].data, TRUE)),
   df |-> pick, err |-> FALSE]

\* an error surfaced by the backend inside a guarded action
BackendFailure(e, a) == [eng |-> e, df |-> a, err |-> TRUE]

_persist(e, a, level) ==
  IF LevelOk(level)
  THEN [eng |-> [Count(e, "persist", a) EXCEPT !.persisted = @ \cup {a}],
        df |-> a, err |-> FALSE]
  ELSE [eng |-> e, df |-> a, err |-> TRUE]

_register(e, a, name) ==
  [eng |-> [Count(e, "register", a) EXCEPT !.views[Str(name)] = e.heap[a].data],
   df |-> a, err |-> FALSE]

Guarded(e, op, a, arg, pick, fail) ==
  CASE fail -> BackendFailure(e, a)
    [] op = "broadcast" -> _broadcast(e, a, pick)
    [] op = "persist" -> _persist(e, a, arg)
    [] op = "register" -> _register(e, a, arg)

\* the arguments a call of op takes besides the dataframe
ArgsOf(op) ==
  CASE op = "broadcast" -> {PyNone}
    [] op = "persist" -> Levels
    [] op = "register" -> {PyStr(n) : n \in Names}

EngInit(objs) ==
  [heap |-> [a \in Addr |-> IF a <= Len(objs) THEN objs[a] ELSE Free],
   hw |-> Len(objs),
   store |-> [op \in Ops |-> [k \in Addr |-> NoKey]],
   persisted |-> {},
   views |-> [n \in Names |-> NoView],
   nAction |-> [op \in Ops |-> [k \in Addr |-> 0]],
   trig |-> [op \in Ops |-> [d \in DataIds |-> 0]]]

\* ------------------------------------------------ SpecEngine: the threads
Idle == [pc |-> "idle", op |-> "none", arg |-> PyNone, d |-> 0, a |-> 0,
         tmp |-> FALSE, ret |-> 0, err |-> FALSE]

\* the state of the variables a specification does not use
EngineOff ==
  /\ eng = EngInit(<<>>)
  /\ thr = [i \in Threads |-> Idle]
  /\ holder = [op \in Ops |-> [k \in Addr |-> 0]]
  /\ rets = [op \in Ops |-> [d \in DFs |-> <<>>]]
  /\ ncalls = 0

WorkflowOff ==
  /\ task = <<>>
  /\ deps = <<>>
  /\ wf = <<>>
  /\ hist = <<>>

ApiOff == api = <<>>

MapOff ==
  /\ mapper = [empty |-> TRUE, on_init |-> FALSE, use_pandas_udf |-> FALSE]
  /\ prows = <<>>
  /\ attempts = <<>>
  /\ initCalls = <<>>
  /\ mapCalls = <<>>
  /\ yielded = <<>>
  /\ vec = <<>>

InitEngine ==
  /\ MapOff
  /\ WorkflowOff
  /\ ApiOff
  /\ \E kinds \in [DFs -> {SparkObj(1, FALSE), OtherObj(1)}] :
       eng = EngInit([d \in DFs |-> [kinds[d] EXCEPT !.data = d]])
  /\ thr = [i \in Threads |-> Idle]
  /\ holder = [op \in Ops |-> [k \in Addr |-> 0]]
  /\ rets = [op \in Ops |-> [d \in DFs |-> <<>>]]
  /\ ncalls = 0

\* broadcast(df) / persist(df, level) / register(df, name): the argument is
\* converted by to_df, the key computed and the per-key lock looked up
Call(i) ==
  /\ thr[i].pc = "idle"
  /\ ncalls < MaxCalls
  /\ \E op \in Ops, d \in DFs :
       \E arg \in ArgsOf(op), pick \in Candidates(eng) :
         LET c == to_df(eng, d, pick) IN
           /\ eng' = c.eng
           /\ thr' = [thr EXCEPT ![i] = [pc |-> "wait", op |-> op, arg |-> arg,
                                         d |-> d, a |-> c.df, tmp |-> c.tmp,
                                         ret |-> 0, err |-> FALSE]]
  /\ ncalls' = ncalls + 1
  /\ UNCHANGED <<holder, rets>>
  /\ UNCHANGED <<mapVars, wfVars, apiVars>>

\* RunOnce.__call__: the lock of the key is taken; a stored result is returned
AcquireHit(i) ==
  LET t == thr[i]
      k == KeyFunc(t.a) IN
    /\ t.pc = "wait"
    /\ holder[t.op][k] = 0
    /\ eng.store[t.op][k] # NoKey
    /\ thr' = [thr EXCEPT ![i].pc = "idle", ![i].ret = eng.store[t.op][k],
                           ![i].arg = PyNone, ![i].tmp = FALSE]
    /\ rets' = [rets EXCEPT ![t.op][t.d] = Append(@, eng.store[t.op][k])]
    /\ eng' = Release(eng, t.a, t.tmp)
    /\ UNCHANGED <<holder, ncalls>>
    /\ UNCHANGED <<mapVars, wfVars, apiVars>>

\* RunOnce.__call__: the lock of the key is taken and nothing is stored for
\* the key, so the guarded action starts
AcquireMiss(i) ==
  LET t == thr[i]
      k == KeyFunc(t.a) IN
    /\ t.pc = "wait"
    /\ holder[t.op][k] = 0
    /\ eng.store[t.op][k] = NoKey
    /\ holder' = [holder EXCEPT ![t.op][k] = i]
    /\ thr' = [thr EXCEPT ![i].pc = "exec"]
    /\ UNCHANGED <<eng, rets, ncalls>>
    /\ UNCHANGED <<mapVars, wfVars, apiVars>>

\* the guarded action ends: its result is stored and returned, or it raised
\* and nothing is stored; the lock is released either way
Finish(i) ==
  LET t == thr[i]
      k == KeyFunc(t.a) IN
    /\ t.pc = "exec"
    /\ \E pick \in PicksFor(eng, t.op = "broadcast"), fail \in BOOLEAN :
         LET r == Guarded(eng, t.op, t.a, t.arg, pick, fail) IN
           IF r.err
           THEN /\ eng' = Release(r.eng, t.a, t.tmp)
                /\ thr' = [thr EXCEPT ![i].pc = "idle", ![i].err = TRUE,
                                     ![i].arg = PyNone, ![i].tmp = FALSE]
                /\ rets' = rets
           ELSE /\ eng' = Release([r.eng EXCEPT !.store[t.op][k] = r.df],
                                  t.a, t.tmp)
                /\ thr' = [thr EXCEPT ![i].pc = "idle", ![i].ret = r.df,
                                     ![i].arg = PyNone, ![i].tmp = FALSE]
                /\ rets' = [rets EXCEPT ![t.op][t.d] = Append(@, r.df)]
    /\ holder' = [holder EXCEPT ![t.op][k] = 0]
    /\ UNCHANGED ncalls
    /\ UNCHANGED <<mapVars, wfVars, apiVars>>

NextEngine ==
  \E i \in Threads : Call(i) \/ AcquireHit(i) \/ AcquireMiss(i) \/ Finish(i)

SpecEngine == InitEngine /\ [][NextEngine]_vars

\* C2: for every dataframe instance and each of broadcast, persist and
\* register, once a call on that instance has returned the backend action
\* has been triggered exactly once for the instance, and every later call
\* returned the result of the first.
C2_OncePerInstance ==
  \A op \in Ops, d \in DFs :
    Len(rets[op][d]) >= 1 =>
      /\ eng.trig[op][d] = 1
      /\ \A n \in 1..Len(rets[op][d]) : rets[op][d][n] = rets[op][d][1]

C16_BadLevelAlwaysFails ==
  [][\A i \in Threads :
       (thr[i].op = "persist" /\ thr[i].pc # "idle" /\ ~LevelOk(thr[i].arg)
          /\ thr'[i].pc = "idle")
       => thr'[i].err]_vars

\* ------------------------------------------------------------ the tasks
Roles == {"Create", "Process", "Output"}
Tasks == 1..NTasks
NoDf == 0
NoErr == "none"

\* str(i) of a small number i
Digits == <<"0", "1", "2", "3", "4", "5", "6", "7", "8", "9">>
IntStr(i) == Digits[i + 1]

\* the input and output specs FugueTask.__init__ builds, by name; an
\* input_names list is taken to hold "in0", "in1", ...; range(n) is empty
\* for n <= 0
InputSpecs(input_n, input_names) ==
  [i \in 1..input_n |-> IF input_names THEN "in" \o IntStr(i - 1) ELSE "_" \o IntStr(i - 1)]
OutputSpecs(output_n) == [i \in 1..output_n |-> "_" \o IntStr(i - 1)]

\* FugueTask.__init__ as called by Create, Process and Output: the fields
\* that TaskSpec keeps and the four hints in their initial state
FugueTask(role, input_n, output_n, params, deterministic, lazy, input_names, ext, pre_partition) ==
  [role |-> role, inputs |-> InputSpecs(input_n, input_names),
   outputs |-> OutputSpecs(output_n),
   input_has_key |-> input_names, metadata |-> params,
   deterministic |-> deterministic, lazy |-> lazy,
   ext |-> ext, partition_spec |-> pre_partition,
   configs |-> PyNone, node_spec |-> PyNone, execution_engine |-> PyNone,
   persist |-> PyNone, broadcast |-> FALSE,
   checkpoint |-> FALSE, checkpoint_namespace |-> PyNone]

Create(creator, params, deterministic, lazy) ==
  FugueTask("Create", 0, 1, params, deterministic, lazy, FALSE, creator, "")

Process(input_n, processor, params, pre_partition, deterministic, lazy, input_names) ==
  FugueTask("Process", input_n, 1, params, deterministic, lazy, input_names,
            processor, pre_partition)

Output(input_n, outputter, params, pre_partition, deterministic, lazy, input_names) ==
  FugueTask("Output", input_n, 1, params, deterministic, lazy, input_names,
            outputter, pre_partition)

\* the hint methods
persistFirstWins(tk, level) ==
  IF tk.persist # PyNone THEN tk
  ELSE [tk EXCEPT !.persist = IF level = PyNone THEN PyStr("") ELSE level]

persist(tk, level) ==
  [tk EXCEPT !.persist = IF level = PyNone THEN PyStr("") ELSE level]

broadcast(tk) == [tk EXCEPT !.broadcast = TRUE]

checkpoint(tk, namespace) ==
  [tk EXCEPT !.checkpoint = TRUE,
             !.checkpoint_namespace =
                IF namespace = PyNone THEN PyNone ELSE PyStr(Str(namespace))]

\* execute binds the engine to the wrapped extension
BindEngine(tk) == [tk EXCEPT !.execution_engine = PyStr("engine")]

\* to_uuid of triad: a digest of its arguments in order, taken to be
\* collision-free, so it is modelled by the tuple of the arguments
to_uuid(args) == args

FugueTaskUuidWithEngine(tk) ==
  to_uuid(<<tk.configs, tk.inputs, tk.input_has_key, tk.outputs, tk.metadata,
            tk.deterministic, tk.lazy, tk.node_spec, Str(tk.persist),
            tk.broadcast, tk.checkpoint, tk.checkpoint_namespace,
            tk.execution_engine>>)

\* FugueTask.__uuid__; the input specs are the number of inputs and whether
\* they carry the given names, the output specs the number of outputs
FugueTaskUuid(tk) ==
  to_uuid(<<tk.configs, tk.inputs, tk.input_has_key, tk.outputs, tk.metadata,
            tk.deterministic, tk.lazy, tk.node_spec, Str(tk.persist),
            tk.broadcast, tk.checkpoint, tk.checkpoint_namespace>>)

\* Create.__uuid__, Process.__uuid__ and Output.__uuid__
UUID(tk) ==
  IF tk.role = "Create"
  THEN to_uuid(<<FugueTaskUuid(tk), tk.ext, tk.metadata>>)
  ELSE to_uuid(<<FugueTaskUuid(tk), tk.ext, tk.metadata, tk.partition_spec>>)

\* ------------------------------------------- the engine, called in sequence
\* the address of a new object made inside execute: the lowest freed address
\* when reuse is chosen and one exists, else the lowest address never used
Pick(e, reuse) ==
  LET freed == {a \in 1..e.hw : e.heap[a] = Free} IN
    IF reuse /\ freed # {}
    THEN CHOOSE a \in freed : \A b \in freed : a <= b
    ELSE e.hw + 1

\* engine.broadcast(df) / engine.persist(df, level) run to the end by one
\* caller: to_df, then the RunOnce guard (stored result, or the action)
EngineCall(e, op, a, arg, reuse, fail) ==
  LET c == to_df(e, a, Pick(e, reuse))
      k == KeyFunc(c.df)
      r == Guarded(c.eng, op, c.df, arg, Pick(c.eng, reuse), fail)
  IN IF c.eng.store[op][k] # NoKey
     THEN [eng |-> Release(c.eng, c.df, c.tmp), df |-> c.eng.store[op][k],
           err |-> FALSE]
     ELSE IF r.err
     THEN [eng |-> Release(r.eng, c.df, c.tmp), df |-> NoDf, err |-> TRUE]
     ELSE [eng |-> Release([r.eng EXCEPT !.store[op][k] = r.df], c.df, c.tmp),
           df |-> r.df, err |-> FALSE]

\* ------------------------------------------------------- execute, by step
\* A context is the state execute works on: the engine, the run, the local
\* variable df and the exception in flight. A step appends to the task's log.
Logged(c, t, name) ==
  [c EXCEPT !.wf.steps[t] = Append(@, [step |-> name, df |-> c.df,
                                        raised |-> c.err])]

Raise(c, t, name, exc) == Logged([c EXCEPT !.err = exc, !.df = NoDf], t, name)

\* what the wrapped extension does, as chosen by ch.outcome: it raises, or
\* returns a new dataframe that is not a SparkDataFrame, or (a processor)
\* hands on the first of its inputs, which is a SparkDataFrame when the task
\* it comes from persisted or broadcast it
Inputs(c, t) == {c.wf.outputs[d] : d \in deps[t]}

Extension(c, t, ch) ==
  LET c1 == [c EXCEPT !.wf.extCalls[t] = @ + 1]
      a == Pick(c.eng, ch.reuse)
      ins == Inputs(c, t) IN
    IF ch.outcome = "raise" THEN Raise(c1, t, "extension", "ExtensionError")
    ELSE IF ch.outcome = "input" /\ ins # {}
    THEN Logged([c1 EXCEPT !.df = CHOOSE x \in ins : \A y \in ins : x <= y],
                t, "extension")
    ELSE Logged([c1 EXCEPT !.eng = Alloc(c.eng, a, OtherObj(t)), !.df = a],
                t, "extension")

handle_persist(c, t, ch) ==
  IF c.err # NoErr THEN c
  ELSE IF task[t].persist = PyNone THEN Logged(c, t, "handle_persist")
  ELSE LET level == IF task[t].persist = PyStr("") THEN PyNone
                    ELSE task[t].persist
           r == EngineCall(c.eng, "persist", c.df, level, ch.reuse,
                           ch.fail = "persist")
       IN IF r.err
          THEN Raise([c EXCEPT !.eng = r.eng], t, "handle_persist",
                     IF ch.fail = "persist" THEN "BackendFailure"
                     ELSE "ValueError")
          ELSE Logged([c EXCEPT !.eng = r.eng, !.df = r.df], t,
                      "handle_persist")

handle_broadcast(c, t, ch) ==
  IF c.err # NoErr THEN c
  ELSE IF ~task[t].broadcast THEN Logged(c, t, "handle_broadcast")
  ELSE LET r == EngineCall(c.eng, "broadcast", c.df, PyNone, ch.reuse,
                           ch.fail = "broadcast")
       IN IF r.err
          THEN Raise([c EXCEPT !.eng = r.eng], t, "handle_broadcast",
                     "BackendFailure")
          ELSE Logged([c EXCEPT !.eng = r.eng, !.df = r.df], t,
                      "handle_broadcast")

\* id(self), the key of the task in the result cache
TaskIdShared(t) == 1
TaskId(t) == t

\* FugueWorkflowContext.set_result(key, df)
set_result(w, key, df) ==
  [w EXCEPT !.results[key] = df, !.nset[key] = @ + 1,
            !.first[key] = IF w.nset[key] = 0 THEN df ELSE @]

_set_result_skip(c, t) == IF c.err # NoErr THEN c ELSE Logged(c, t, "_set_result")

_set_result(c, t) ==
  IF c.err # NoErr THEN c
  ELSE Logged([c EXCEPT !.wf = set_result(c.wf, TaskId(t), c.df)], t,
              "_set_result")

\* ctx.outputs["_0"] = df
Publish(c, t) ==
  IF c.err # NoErr THEN c
  ELSE Logged([c EXCEPT !.wf.outputs[t] = c.df], t, "publish")

CreateExecuteSwapped(c, t, ch) ==
  Publish(_set_result(handle_persist(handle_broadcast(
    Extension(c, t, ch), t, ch), t, ch), t), t)

CreateExecute(c, t, ch) ==
  Publish(_set_result(handle_broadcast(handle_persist(
    Extension(c, t, ch), t, ch), t, ch), t), t)

ProcessExecuteEarlyPublish(c, t, ch) ==
  _set_result(handle_broadcast(handle_persist(
    Publish(Extension(c, t, ch), t), t, ch), t, ch), t)

ProcessExecute(c, t, ch) ==
  Publish(_set_result(handle_broadcast(handle_persist(
    Extension(c, t, ch), t, ch), t, ch), t), t)

\* the outputter is run for its effect, then an empty ArrayDataFrame is
\* published
Dummy(c, t, ch) ==
  IF c.err # NoErr THEN c
  ELSE LET a == Pick(c.eng, ch.reuse) IN
    [c EXCEPT !.eng = Alloc(c.eng, a, OtherObj(t)), !.df = a]

OutputExecute(c, t, ch) == Publish(Dummy(Extension(c, t, ch), t, ch), t)

ExecuteOf(c, t, ch) ==
  CASE task[t].role = "Create" -> CreateExecute(c, t, ch)
    [] task[t].role = "Process" -> ProcessExecute(c, t, ch)
    [] task[t].role = "Output" -> OutputExecute(c, t, ch)

\* ------------------------------------------------ Spec: the workflow run
PersistHints == {PyNone, PyStr("bad")}
Producers(cfg) == {n \in 1..Len(cfg) : cfg[n].role # "Output"}
HintCalls == [pcall : BOOLEAN, level : PersistHints, bcall : BOOLEAN]
NoHints == [pcall |-> FALSE, level |-> PyNone, bcall |-> FALSE]

\* the tasks a DAG builder can add after the tasks of cfg: a Create, or a
\* Process or an Output fed by one earlier task that has a result. Tasks are
\* numbered in a topological order that puts the Creates first and the
\* Outputs last (every DAG of this kind has one).
Rank(r) == CASE r = "Create" -> 1 [] r = "Process" -> 2 [] r = "Output" -> 3

Options(cfg) ==
  {x \in {[role |-> "Create", deps |-> {}]}
         \cup {[role |-> r, deps |-> {d}] :
                 r \in {"Process", "Output"}, d \in Producers(cfg)} :
     cfg = <<>> \/ Rank(cfg[Len(cfg)].role) <= Rank(x.role)}

RECURSIVE Dags(_)
Dags(n) ==
  IF n = 0 THEN {<<>>}
  ELSE UNION {{Append(cfg, x) : x \in Options(cfg)} : cfg \in Dags(n - 1)}

\* persist and broadcast as the DAG builder calls them on the tasks that have
\* a result: the same calls on every Create and Process of one workflow
HintProfiles == {x \in HintCalls : x.pcall \/ x.level = PyNone}

Hinted(tk, h) ==
  LET t1 == IF h.pcall THEN persist(tk, h.level) ELSE tk IN
    IF h.bcall THEN broadcast(t1) ELSE t1

Built(x, h) ==
  Hinted(CASE x.role = "Create" -> Create("ext", "params", TRUE, TRUE)
           [] x.role = "Process" ->
                Process(Cardinality(x.deps), "ext", "params", "", TRUE, FALSE,
                        FALSE)
           [] x.role = "Output" ->
                Output(Cardinality(x.deps), "ext", "params", "", TRUE, FALSE,
                       FALSE),
         IF x.role = "Output" THEN NoHints ELSE h)

WfInit ==
  [status |-> [t \in Tasks |-> "pending"],
   results |-> [t \in Tasks |-> NoDf],
   nset |-> [t \in Tasks |-> 0],
   first |-> [t \in Tasks |-> NoDf],
   outputs |-> [t \in Tasks |-> NoDf],
   steps |-> [t \in Tasks |-> <<>>],
   extCalls |-> [t \in Tasks |-> 0],
   error |-> [t \in Tasks |-> NoErr]]

Init ==
  /\ MapOff
  /\ ApiOff
  /\ \E cfg \in Dags(NTasks), h \in HintProfiles :
       /\ task = [t \in Tasks |-> Built(cfg[t], h)]
       /\ deps = [t \in Tasks |-> cfg[t].deps]
  /\ wf = WfInit
  /\ hist = <<>>
  /\ eng = EngInit(<<>>)
  /\ thr = [i \in Threads |-> Idle]
  /\ holder = [op \in Ops |-> [k \in Addr |-> 0]]
  /\ rets = [op \in Ops |-> [d \in DFs |-> <<>>]]
  /\ ncalls = 0

\* what is left open when task t executes: what its extension does, whether
\* new objects take a freed address, whether the backend fails in broadcast
Choices(t) ==
  [outcome : {"raise", "other"}
               \cup (IF task[t].role = "Process" /\ deps[t] # {}
                     THEN {"input"} ELSE {}),
   reuse : IF \E a \in 1..eng.hw : eng.heap[a] = Free
           THEN BOOLEAN ELSE {FALSE},
   fail : IF task[t].broadcast THEN {"none", "broadcast"} ELSE {"none"}]

\* the scheduler runs a task whose inputs are all available; execute runs to
\* the end without re-entry for the same task
Execute(t) ==
  /\ wf.status[t] = "pending"
  /\ \A d \in deps[t] : wf.outputs[d] # NoDf
  /\ \E ch \in Choices(t) :
       LET c == ExecuteOf([eng |-> eng, wf |-> wf, df |-> NoDf, err |-> NoErr],
                          t, ch) IN
         /\ eng' = c.eng
         /\ wf' = [c.wf EXCEPT
                     !.status[t] = IF c.err = NoErr THEN "done" ELSE "failed",
                     !.error[t] = c.err]
  /\ task' = [task EXCEPT ![t] = BindEngine(@)]
  /\ UNCHANGED <<deps, hist, thr, holder, rets, ncalls>>
  /\ UNCHANGED <<mapVars, apiVars>>

Next == \E t \in Tasks : Execute(t)

Spec == Init /\ [][Next]_vars

\* the tasks t depends on, directly or transitively
RECURSIVE Upstream(_)
Upstream(t) == deps[t] \cup UNION {Upstream(d) : d \in deps[t]}

StepNames(t) == [n \in 1..Len(wf.steps[t]) |-> wf.steps[t][n].step]
ProducerSteps ==
  <<"extension", "handle_persist", "handle_broadcast", "_set_result", "publish">>

\* C1: in a workflow run the result-cache entry of a task instance is
\* written at most once and, once written, stays what was first written; no
\* extension is invoked twice, and a Process feeding two Output tasks that
\* have both run has invoked its processor exactly once.
C1_ResultSetOnce ==
  /\ \A k \in Tasks :
       /\ wf.nset[k] <= 1
       /\ wf.nset[k] = 0 => wf.results[k] = NoDf
       /\ wf.nset[k] = 1 => wf.results[k] = wf.first[k] /\ wf.results[k] # NoDf
  /\ \A t \in Tasks :
       /\ wf.extCalls[t] <= 1
       /\ (task[t].role = "Process"
             /\ \E o1, o2 \in Tasks :
                  /\ o1 # o2
                  /\ \A o \in {o1, o2} :
                       /\ task[o].role = "Output"
                       /\ t \in deps[o]
                       /\ wf.status[o] = "done")
            => wf.extCalls[t] = 1 /\ wf.nset[TaskId(t)] = 1

\* a Process has fed two Output tasks, both done, and its result is cached
C1_Witness ==
  \E t, o1, o2 \in Tasks :
    /\ task[t].role = "Process"
    /\ o1 # o2
    /\ \A o \in {o1, o2} :
         task[o].role = "Output" /\ deps[o] = {t} /\ wf.status[o] = "done"
    /\ wf.results[TaskId(t)] # NoDf

\* C5: Create.execute and Process.execute run the extension, then persist
\* post-processing, then broadcast post-processing, then store the result,
\* then publish it; the dataframe stored and the dataframe published are the
\* object the broadcast step returned. An execute that raised went through a
\* prefix of these steps.
C5_ExecuteOrder ==
  \A t \in Tasks :
    task[t].role \in {"Create", "Process"} =>
      /\ Len(wf.steps[t]) <= Len(ProducerSteps)
      /\ StepNames(t) = SubSeq(ProducerSteps, 1, Len(wf.steps[t]))
      /\ wf.status[t] = "done" =>
           /\ StepNames(t) = ProducerSteps
           /\ wf.results[TaskId(t)] = wf.steps[t][3].df
           /\ wf.outputs[t] = wf.steps[t][3].df
           /\ wf.steps[t][3].df # NoDf

\* a task with both hints has run to the end; persist and broadcast each
\* returned an object of its own
C5_Witness ==
  \E t \in Tasks :
    /\ task[t].role \in {"Create", "Process"}
    /\ task[t].persist # PyNone /\ task[t].broadcast
    /\ wf.status[t] = "done"
    /\ wf.steps[t][1].df # wf.steps[t][2].df
    /\ wf.steps[t][2].df # wf.steps[t][3].df

C7_FailureLeavesNothing ==
  \A t \in Tasks :
    wf.status[t] = "failed" =>
      /\ wf.results[TaskId(t)] = NoDf
      /\ wf.nset[TaskId(t)] = 0
      /\ wf.outputs[t] = NoDf
      /\ wf.error[t] # NoErr
      /\ wf.error[t] = wf.steps[t][Len(wf.steps[t])].raised
      /\ \A u \in Tasks :
           t \in Upstream(u) =>
             /\ wf.status[u] = "pending"
             /\ wf.extCalls[u] = 0
             /\ wf.steps[u] = <<>>

\* a task failed in its persist or broadcast step, it has a direct and a
\* transitive dependent, and every task that could run has run
C7_Witness ==
  \E t, u, v \in Tasks :
    /\ wf.status[t] = "failed"
    /\ wf.steps[t][Len(wf.steps[t])].step \in {"handle_persist", "handle_broadcast"}
    /\ t \in deps[u] /\ u \in deps[v]
    /\ \A x \in Tasks :
         wf.status[x] = "pending" => \E d \in deps[x] : wf.outputs[d] = NoDf

\* ------------------------------------ SpecTask: operations on two tasks
Pair == {1, 2}
HintLevels == {PyNone, PyStr("None")}
Namespaces == {PyNone, PyStr("ns")}
ParamBags == {"p1", "p2"}
CopyMethods == {"copy", "__copy__", "__deepcopy__"}

Construct(role, params) ==
  CASE role = "Create" -> Create("ext", params, TRUE, TRUE)
    [] role = "Process" -> Process(1, "ext", params, "", TRUE, FALSE, FALSE)
    [] role = "Output" -> Output(1, "ext", params, "", TRUE, FALSE, FALSE)

NoRequest ==
  [persist |-> [set |-> FALSE, level |-> PyNone], broadcast |-> FALSE,
   checkpoint |-> [set |-> FALSE, namespace |-> PyNone]]

InitTask ==
  /\ EngineOff
  /\ MapOff
  /\ ApiOff
  /\ \E r \in Roles, p \in ParamBags :
       task = [t \in Pair |-> Construct(r, IF t = 1 THEN "p1" ELSE p)]
  /\ deps = [t \in Pair |-> {}]
  /\ wf = <<>>
  /\ hist = [uuid0 |-> [t \in Pair |-> UUID(task[t])],
             req |-> [t \in Pair |-> NoRequest],
             op |-> [name |-> "__init__", t |-> 0],
             err |-> NoErr]

Did(name, t, err) ==
  [hist EXCEPT !.op = [name |-> name, t |-> t], !.err = err]

TaskPersist(t) ==
  \E level \in HintLevels :
    /\ task' = [task EXCEPT ![t] = persist(@, level)]
    /\ hist' = [Did("persist", t, NoErr) EXCEPT
                  !.req[t].persist = [set |-> TRUE, level |-> level]]
    /\ UNCHANGED <<deps, wf>>
    /\ UNCHANGED <<engVars, mapVars, apiVars>>

TaskBroadcast(t) ==
  /\ task' = [task EXCEPT ![t] = broadcast(@)]
  /\ hist' = [Did("broadcast", t, NoErr) EXCEPT !.req[t].broadcast = TRUE]
  /\ UNCHANGED <<deps, wf>>
  /\ UNCHANGED <<engVars, mapVars, apiVars>>

TaskCheckpoint(t) ==
  \E namespace \in Namespaces :
    /\ task' = [task EXCEPT ![t] = checkpoint(@, namespace)]
    /\ hist' = [Did("checkpoint", t, NoErr) EXCEPT
                  !.req[t].checkpoint = [set |-> TRUE, namespace |-> namespace]]
    /\ UNCHANGED <<deps, wf>>
    /\ UNCHANGED <<engVars, mapVars, apiVars>>

\* copy(), __copy__() and __deepcopy__(memo) raise; no task is made
copyClone(tks, t) ==
  [tasks |-> [n \in DOMAIN tks \cup {Cardinality(DOMAIN tks) + 1} |->
                IF n \in DOMAIN tks THEN tks[n] ELSE tks[t]],
   err |-> NoErr]

copy(tks, t) == [tasks |-> tks, err |-> "InvalidOperationError"]
__copy__(tks, t) == [tasks |-> tks, err |-> "InvalidOperationError"]
__deepcopy__(tks, t, memo) == [tasks |-> tks, err |-> "InvalidOperationError"]

TaskCopy(t) ==
  /\ \E m \in CopyMethods :
       LET r == CASE m = "copy" -> copy(task, t)
                  [] m = "__copy__" -> __copy__(task, t)
                  [] m = "__deepcopy__" -> __deepcopy__(task, t, <<>>)
       IN /\ task' = r.tasks
          /\ hist' = Did(m, t, r.err)
  /\ UNCHANGED <<deps, wf>>
  /\ UNCHANGED <<engVars, mapVars, apiVars>>

\* execute, as far as the task object goes
TaskExecute(t) ==
  /\ task' = [task EXCEPT ![t] = BindEngine(@)]
  /\ hist' = Did("execute", t, NoErr)
  /\ UNCHANGED <<deps, wf>>
  /\ UNCHANGED <<engVars, mapVars, apiVars>>

NextTask ==
  \E t \in Pair :
    \/ TaskPersist(t)
    \/ TaskBroadcast(t)
    \/ TaskCheckpoint(t)
    \/ TaskCopy(t)
    \/ TaskExecute(t)

SpecTask == InitTask /\ [][NextTask]_vars

\* the identity fields other than the hints
OtherFields(tk) ==
  <<tk.role, tk.configs, tk.inputs, tk.input_has_key, tk.outputs, tk.metadata,
    tk.deterministic, tk.lazy, tk.node_spec, tk.ext, tk.partition_spec>>

HintFields(tk) ==
  <<tk.persist, tk.broadcast, tk.checkpoint, tk.checkpoint_namespace>>

\* C8: two tasks that agree on all other identity fields and differ in the
\* persist hint, the broadcast flag or the checkpoint namespace have
\* different identities.
C8_HintsChangeIdentity ==
  \A t1, t2 \in Pair :
    /\ OtherFields(task[t1]) = OtherFields(task[t2])
    /\ HintFields(task[t1]) # HintFields(task[t2])
    => UUID(task[t1]) # UUID(task[t2])

\* C9: two tasks of the same role constructed with identical arguments and
\* brought to the same hints (the last persist level asked for, broadcast
\* asked for or not, the last checkpoint namespace asked for) by whatever
\* sequences of hint calls have equal identities.
C9_IdentityDeterministic ==
  \A t1, t2 \in Pair :
    /\ OtherFields(task[t1]) = OtherFields(task[t2])
    /\ hist.req[t1] = hist.req[t2]
    => UUID(task[t1]) = UUID(task[t2])

\* two tasks constructed alike hold the same hints, all three asked for, and
\* only one of them has been executed
C9_Witness ==
  /\ OtherFields(task[1]) = OtherFields(task[2])
  /\ hist.req[1] = hist.req[2]
  /\ hist.req[1].persist.set /\ hist.req[1].broadcast
  /\ hist.req[1].checkpoint.set
  /\ task[1].execution_engine # task[2].execution_engine

\* C10 as stated: the identity of a task is always the one it had right
\* after construction.
C10_IdentityFixed ==
  \A t \in Pair : UUID(task[t]) = hist.uuid0[t]

\* C10 as amended: the identity of a task changes only in a persist,
\* broadcast or checkpoint call on that task; copy attempts and execute
\* leave every identity as it was.
C10_OnlyHintCallsChangeIdentity ==
  [][\A t \in Pair :
       UUID(task'[t]) # UUID(task[t]) =>
         /\ hist'.op.t = t
         /\ hist'.op.name \in {"persist", "broadcast", "checkpoint"}]_vars

\* a task has been executed, a copy of it has just been refused, and its
\* identity is the one it was constructed with
C10_Witness ==
  \E t \in Pair :
    /\ hist.op.t = t /\ hist.op.name \in CopyMethods
    /\ hist.err = "InvalidOperationError"
    /\ task[t].execution_engine = PyStr("engine")
    /\ UUID(task[t]) = hist.uuid0[t]

\* C20: every copy(), __copy__() or __deepcopy__() of a task fails with an
\* error, makes no new task object and leaves the hints and the identity of
\* every task as they were.
C20_CopyFails ==
  [][hist'.op.name \in CopyMethods =>
       /\ hist'.err = "InvalidOperationError"
       /\ DOMAIN task' = DOMAIN task
       /\ \A t \in DOMAIN task :
            /\ HintFields(task'[t]) = HintFields(task[t])
            /\ UUID(task'[t]) = UUID(task[t])]_vars

\* a deep copy of a task that holds hints has just been refused
C20_Witness ==
  \E t \in Pair :
    /\ hist.op = [name |-> "__deepcopy__", t |-> t]
    /\ hist.err = "InvalidOperationError"
    /\ task[t].persist # PyNone /\ task[t].broadcast /\ task[t].checkpoint
    /\ DOMAIN task = Pair

\* ------------------------------------------ SpecNew: constructing tasks
InputNs == {-1, 0, 1}
OutputNs == {0, 1, 2}
Classes == Roles \cup {"Custom"}

\* assert_or_throw of triad: the exception raised, or none
assert_or_throw(bool_exp, exception) == IF bool_exp THEN NoErr ELSE exception

\* the object under construction: the attributes set on it so far and the
\* conversions called for it so far
NoSelf == [attrs |-> {}, calls |-> <<>>]
SetAttr(self, names, call) ==
  [attrs |-> self.attrs \cup names, calls |-> Append(self.calls, call)]
TaskAttrs ==
  {"_input_has_key", "inputs", "outputs", "metadata", "_persist", "_broadcast",
   "_checkpoint", "_checkpoint_namespace"}

FugueTask__init__Unchecked(self, role, input_n, output_n, params, deterministic, lazy, input_names, ext, pre_partition) ==
  [err |-> NoErr,
   self |-> SetAttr(self, TaskAttrs, "TaskSpec.__init__"),
   made |-> <<FugueTask(role, input_n, output_n, params, deterministic, lazy,
                        input_names, ext, pre_partition)>>]

\* FugueTask.__init__ with its outcome: the exception raised, what was set
\* on self, and the task if one was made
FugueTask__init__(self, role, input_n, output_n, params, deterministic, lazy, input_names, ext, pre_partition) ==
  LET e == assert_or_throw(output_n <= 1, "NotImplementedError")
  IN IF e # NoErr
     THEN [err |-> e, self |-> self, made |-> <<>>]
     ELSE [err |-> NoErr,
           self |-> SetAttr(self, TaskAttrs, "TaskSpec.__init__"),
           made |-> <<FugueTask(role, input_n, output_n, params, deterministic,
                                lazy, input_names, ext, pre_partition)>>]

Create__init__(creator, params, deterministic, lazy) ==
  LET s1 == SetAttr(NoSelf, {"_creator"}, "_to_creator")
      s2 == SetAttr(s1, {"_creator._params"}, "ParamDict")
  IN FugueTask__init__(s2, "Create", 0, 1, params, deterministic, lazy, FALSE,
                       creator, "")

Process__init__(input_n, processor, params, pre_partition, deterministic, lazy, input_names) ==
  LET s1 == SetAttr(NoSelf, {"_processor"}, "_to_processor")
      s2 == SetAttr(s1, {"_processor._params"}, "ParamDict")
      s3 == SetAttr(s2, {"_processor._partition_spec"}, "PartitionSpec")
  IN FugueTask__init__(s3, "Process", input_n, 1, params, deterministic, lazy,
                       input_names, processor, pre_partition)

Output__init__LateAssert(input_n, outputter, params, pre_partition, deterministic, lazy, input_names) ==
  LET s1 == SetAttr(NoSelf, {"_outputter"}, "_to_outputter")
      s2 == SetAttr(s1, {"_outputter._params"}, "ParamDict")
      s3 == SetAttr(s2, {"_outputter._partition_spec"}, "PartitionSpec")
      e == assert_or_throw(input_n > 0, "FugueWorkflowError")
  IN IF e # NoErr
     THEN [err |-> e, self |-> s3, made |-> <<>>]
     ELSE FugueTask__init__(s3, "Output", input_n, 1, params, deterministic,
                            lazy, input_names, outputter, pre_partition)

Output__init__(input_n, outputter, params, pre_partition, deterministic, lazy, input_names) ==
  LET e == assert_or_throw(input_n > 0, "FugueWorkflowError")
      s1 == SetAttr(NoSelf, {"_outputter"}, "_to_outputter")
      s2 == SetAttr(s1, {"_outputter._params"}, "ParamDict")
      s3 == SetAttr(s2, {"_outputter._partition_spec"}, "PartitionSpec")
  IN IF e # NoErr
     THEN [err |-> e, self |-> NoSelf, made |-> <<>>]
     ELSE FugueTask__init__(s3, "Output", input_n, 1, params, deterministic,
                            lazy, input_names, outputter, pre_partition)

\* a direct subclass of FugueTask that passes its arguments on
Custom__init__(input_n, output_n, input_names) ==
  FugueTask__init__(NoSelf, "Custom", input_n, output_n, "p1", TRUE, FALSE,
                    input_names, "ext", "")

InitNew ==
  /\ EngineOff
  /\ MapOff
  /\ ApiOff
  /\ task = <<>>
  /\ deps = <<>>
  /\ wf = <<>>
  /\ hist = [cls |-> "none", input_n |-> 0, output_n |-> 0, err |-> NoErr,
             self |-> NoSelf, before |-> 0]

\* one constructor call: the task joins the tasks that exist if and only
\* if the constructor returned
New(cls, r, input_n, output_n) ==
  /\ Len(task) + Len(r.made) <= MaxNew
  /\ task' = task \o r.made
  /\ hist' = [cls |-> cls, input_n |-> input_n, output_n |-> output_n,
              err |-> r.err, self |-> r.self, before |-> Len(task)]
  /\ UNCHANGED <<deps, wf>>
  /\ UNCHANGED <<engVars, mapVars, apiVars>>

NewCreate ==
  \E p \in ParamBags : New("Create", Create__init__("ext", p, TRUE, TRUE), 0, 1)

NewProcess ==
  \E n \in InputNs, names \in BOOLEAN :
    New("Process", Process__init__(n, "ext", "p1", "", TRUE, FALSE, names), n, 1)

NewOutput ==
  \E n \in InputNs, names \in BOOLEAN :
    New("Output", Output__init__(n, "ext", "p1", "", TRUE, FALSE, names), n, 1)

NewCustom ==
  \E n \in InputNs, m \in OutputNs, names \in BOOLEAN :
    New("Custom", Custom__init__(n, m, names), n, m)

NextNew == NewCreate \/ NewProcess \/ NewOutput \/ NewCustom

SpecNew == InitNew /\ [][NextNew]_vars

\* C21: constructing an Output task with input_n <= 0 raises
\* FugueWorkflowError before the outputter is converted and before anything
\* is set on the task, and no task comes to exist; every Output task that
\* exists has at least one input slot.
C21_OutputNeedsInput ==
  /\ (hist.cls = "Output" /\ hist.input_n <= 0) =>
       /\ hist.err = "FugueWorkflowError"
       /\ hist.self.calls = <<>>
       /\ hist.self.attrs = {}
       /\ Len(task) = hist.before
  /\ \A n \in 1..Len(task) :
       task[n].role = "Output" => Len(task[n].inputs) >= 1

\* an Output task exists and a later Output constructor was given no input
C21_Witness ==
  /\ hist.cls = "Output" /\ hist.input_n = 0 /\ hist.err # NoErr
  /\ \E n \in 1..Len(task) : task[n].role = "Output"

\* C22: a constructor given output_n > 1 raises NotImplementedError and no
\* task comes to exist, so every task that exists has at most one output
\* slot; every Create, Process and Output task has exactly one, named "_0".
C22_AtMostOneOutput ==
  /\ hist.output_n > 1 =>
       /\ hist.err = "NotImplementedError"
       /\ Len(task) = hist.before
  /\ \A n \in 1..Len(task) :
       /\ Len(task[n].outputs) <= 1
       /\ task[n].role \in Roles => task[n].outputs = <<"_0">>

\* a subclass asked for two outputs after a Process and a subclass task
\* with no output were made
C22_Witness ==
  /\ hist.cls = "Custom" /\ hist.output_n = 2 /\ hist.err # NoErr
  /\ \E n, m \in 1..Len(task) :
       /\ task[n].role = "Process"
       /\ task[m].role = "Custom" /\ task[m].outputs = <<>>

\* ---------------------------------------------- SpecPart: repartition
KEYWORD_ROWCOUNT == "ROWCOUNT"
Algos == {"hash", "rand", "even", "bogus"}
NumExprs == {<<"2">>, <<KEYWORD_ROWCOUNT, "/", "2">>}
PartitionSpecs == [algo : Algos, num_partitions : NumExprs, sorts : BOOLEAN]
PartObjs == <<SparkObj(1, FALSE), OtherObj(2)>>
Range(f) == {f[i] : i \in DOMAIN f}

\* the state of one repartition call: the engine, the local variable df,
\* the calls made so far and the exception in flight
Ev(c, names) == [c EXCEPT !.ev = @ \o names]

\* self.persist(df) on the SparkDataFrame df with the default level; the
\* guarded _persist, when it runs, persists natively and counts for its log
persist_df(c, reuse) ==
  LET r == EngineCall(c.eng, "persist", c.df, PyNone, reuse, FALSE)
      ran == r.eng.nAction["persist"][KeyFunc(c.df)]
               > c.eng.nAction["persist"][KeyFunc(c.df)]
  IN [eng |-> r.eng, df |-> r.df,
      ev |-> c.ev \o <<"persist">>
               \o (IF ran THEN <<"native.persist", "log.count">> ELSE <<>>),
      err |-> c.err]

_persist_and_count(c, reuse) == Ev(persist_df(c, reuse), <<"df.count">>)

\* PartitionSpec.get_num_partitions: the expression is evaluated, and the
\* function given for a keyword is called if the expression holds the keyword
get_num_partitions(c, partition_spec, reuse) ==
  IF KEYWORD_ROWCOUNT \in Range(partition_spec.num_partitions)
  THEN _persist_and_count(c, reuse)
  ELSE c

Redistribute(c, partition_spec, reuse) ==
  CASE partition_spec.algo = "hash" -> Ev(c, <<"hash_repartition">>)
    [] partition_spec.algo = "rand" -> Ev(c, <<"rand_repartition">>)
    [] partition_spec.algo = "even" ->
         Ev(persist_df(c, reuse), <<"even_repartition">>)
    [] OTHER -> [c EXCEPT !.err = "NotImplementedError", !.df = NoDf]

\* the sort inside the partitions and the SparkDataFrame that wraps the
\* result; the temporary that to_df made for the input dies with the call
Wrap(c, partition_spec, tmp, a, reuse) ==
  LET done == IF c.err # NoErr THEN c
              ELSE LET s == IF partition_spec.sorts
                            THEN Ev(c, <<"sortWithinPartitions">>) ELSE c
                       pick == Pick(s.eng, reuse)
                   IN [s EXCEPT !.eng = Alloc(@, pick,
                                          SparkObj(s.eng.heap[s.df].data, FALSE)),
                                !.df = pick, !.ev = @ \o <<"to_df">>]
  IN [done EXCEPT !.eng = Release(@, a, tmp)]

repartitionAlwaysPersist(e, a, partition_spec, reuse) ==
  LET c == to_df(e, a, Pick(e, reuse))
      s0 == [eng |-> c.eng, df |-> c.df, ev |-> <<>>, err |-> NoErr]
      s1 == get_num_partitions(persist_df(s0, reuse), partition_spec, reuse)
  IN Wrap(Redistribute(s1, partition_spec, reuse), partition_spec, c.tmp, c.df,
          reuse)

repartition(e, a, partition_spec, reuse) ==
  LET c == to_df(e, a, Pick(e, reuse))
      s0 == [eng |-> c.eng, df |-> c.df, ev |-> <<>>, err |-> NoErr]
      s1 == get_num_partitions(s0, partition_spec, reuse)
  IN Wrap(Redistribute(s1, partition_spec, reuse), partition_spec, c.tmp, c.df,
          reuse)

NoRepartition ==
  [op |-> "none", a |-> 0, partition_spec |-> <<>>, stored |-> FALSE,
   ev |-> <<>>, err |-> NoErr, df |-> NoDf]

InitPart ==
  /\ MapOff
  /\ WorkflowOff
  /\ eng = EngInit(PartObjs)
  /\ thr = [i \in Threads |-> Idle]
  /\ holder = [op \in Ops |-> [k \in Addr |-> 0]]
  /\ rets = [op \in Ops |-> [d \in DFs |-> <<>>]]
  /\ ncalls = 0
  /\ api = [last |-> NoRepartition]

\* the caller repartitions one of its two dataframes and drops the result
Repartition ==
  \E a \in 1..Len(PartObjs), partition_spec \in PartitionSpecs, reuse \in BOOLEAN :
    /\ ncalls < MaxCalls
    /\ LET r == repartition(eng, a, partition_spec, reuse) IN
         /\ eng' = IF r.err = NoErr THEN Release(r.eng, r.df, TRUE) ELSE r.eng
         /\ api' = [last |-> [op |-> "repartition", a |-> a,
                              partition_spec |-> partition_spec,
                              stored |-> eng.store["persist"][a] # NoKey,
                              ev |-> r.ev, err |-> r.err, df |-> r.df]]
    /\ ncalls' = ncalls + 1
    /\ UNCHANGED <<thr, holder, rets>>
    /\ UNCHANGED <<mapVars, wfVars>>

NextPart == Repartition

SpecPart == InitPart /\ [][NextPart]_vars

Deferred(partition_spec) ==
  KEYWORD_ROWCOUNT \in Range(partition_spec.num_partitions)
Needed(partition_spec) ==
  partition_spec.algo = "even" \/ Deferred(partition_spec)
Redistributions == {"hash_repartition", "rand_repartition", "even_repartition"}
Counts == {"log.count", "df.count"}
First(ev, names) ==
  IF \E i \in DOMAIN ev : ev[i] \in names
  THEN CHOOSE i \in DOMAIN ev : ev[i] \in names /\ \A j \in 1..(i - 1) : ev[j] \notin names
  ELSE Len(ev) + 1

\* C23 as stated: a repartition call persists and counts its input if and
\* only if the algorithm is "even" or the partition-count expression refers
\* to the row count.
C23_PersistsAndCountsIffNeeded ==
  api.last.op = "repartition" =>
    (("persist" \in Range(api.last.ev) /\ Range(api.last.ev) \cap Counts # {})
       <=> Needed(api.last.partition_spec))

\* C23 as amended: a repartition call calls the engine's persist on its
\* input if and only if the algorithm is "even" or the partition-count
\* expression refers to the row count, and calls count on what persist
\* returned if and only if the expression refers to the row count; the
\* backend persists (and counts for the log) exactly when such a call is the
\* first persist of the instance; with hash or rand and a literal count
\* nothing is persisted or counted; in the deferred case persist and count
\* come, in this order, before the redistribution.
C23_PersistCalledIffNeeded ==
  LET l == api.last
      ev == l.ev
  IN l.op = "repartition" =>
       /\ "persist" \in Range(ev) <=> Needed(l.partition_spec)
       /\ "df.count" \in Range(ev) <=> Deferred(l.partition_spec)
       /\ "native.persist" \in Range(ev)
            <=> (Needed(l.partition_spec) /\ ~l.stored)
       /\ "log.count" \in Range(ev) <=> "native.persist" \in Range(ev)
       /\ ~Needed(l.partition_spec) =>
            Range(ev) \cap ({"persist", "native.persist"} \cup Counts) = {}
       /\ Deferred(l.partition_spec) =>
            /\ First(ev, {"persist"}) < First(ev, {"df.count"})
            /\ First(ev, {"df.count"}) < First(ev, Redistributions)

\* an "even" repartition with a literal count of a dataframe that an earlier
\* repartition had persisted
C23_Witness ==
  /\ api.last.op = "repartition" /\ api.last.err = NoErr
  /\ api.last.partition_spec.algo = "even"
  /\ ~Deferred(api.last.partition_spec)
  /\ api.last.stored
  /\ "even_repartition" \in Range(api.last.ev)

\* ------------------------------------- SpecSql: register and select
SqlObjs == <<SparkObj(1, FALSE), OtherObj(2)>>
NoName == 0
\* the DataFrames given to select: per name a dataframe of the caller or none
DataFramesSets ==
  {dfs \in [Names -> {NoName} \cup (1..Len(SqlObjs))] :
     \E n \in Names : dfs[n] # NoName}
\* the orders in which dfs.items() may hand out the names
ItemOrders == {<<"a", "b">>, <<"b", "a">>}

\* engine.register(df, name) by one caller
register(e, a, name, reuse) == EngineCall(e, "register", a, PyStr(name), reuse, FALSE)

\* the loop of SparkSQLEngine.select over the items left to register
RECURSIVE RegisterAll(_, _, _, _)
RegisterAll(e, dfs, items, reuse) ==
  IF items = <<>> THEN e
  ELSE IF dfs[Head(items)] = NoName THEN RegisterAll(e, dfs, Tail(items), reuse)
  ELSE RegisterAll(register(e, dfs[Head(items)], Head(items), reuse).eng, dfs,
                   Tail(items), reuse)

\* SparkSQLEngine.select: the views as spark_session.sql(statement) finds
\* them, and the engine after the result was wrapped
select(e, dfs, items, reuse) ==
  LET e1 == RegisterAll(e, dfs, items, reuse)
      pick == Pick(e1, reuse)
  IN [eng |-> Alloc(e1, pick, SparkObj(1, FALSE)), df |-> pick,
      views |-> e1.views]

NoStatement ==
  [op |-> "none", dfs |-> [n \in Names |-> NoName],
   views |-> [n \in Names |-> NoView]]

InitSql ==
  /\ MapOff
  /\ WorkflowOff
  /\ eng = EngInit(SqlObjs)
  /\ thr = [i \in Threads |-> Idle]
  /\ holder = [op \in Ops |-> [k \in Addr |-> 0]]
  /\ rets = [op \in Ops |-> [d \in DFs |-> <<>>]]
  /\ ncalls = 0
  /\ api = [last |-> NoStatement]

\* the caller registers one of its dataframes under a name
Register ==
  \E a \in 1..Len(SqlObjs), name \in Names, reuse \in BOOLEAN :
    /\ ncalls < MaxCalls
    /\ LET r == register(eng, a, name, reuse) IN
         /\ eng' = r.eng
         /\ api' = [last |-> [op |-> "register",
                              dfs |-> [n \in Names |->
                                         IF n = name THEN a ELSE NoName],
                              views |-> r.eng.views]]
    /\ ncalls' = ncalls + 1
    /\ UNCHANGED <<thr, holder, rets>>
    /\ UNCHANGED <<mapVars, wfVars>>

\* the caller runs a statement over some of its dataframes and drops the
\* result
Select ==
  \E dfs \in DataFramesSets, items \in ItemOrders, reuse \in BOOLEAN :
    /\ ncalls < MaxCalls
    /\ LET r == select(eng, dfs, items, reuse) IN
         /\ eng' = Release(r.eng, r.df, TRUE)
         /\ api' = [last |-> [op |-> "select", dfs |-> dfs, views |-> r.views]]
    /\ ncalls' = ncalls + 1
    /\ UNCHANGED <<thr, holder, rets>>
    /\ UNCHANGED <<mapVars, wfVars>>

NextSql == Register \/ Select

SpecSql == InitSql /\ [][NextSql]_vars

\* C24: when a register call has returned, and when the statement of a
\* select runs, the backend holds for every (name, dataframe) pair of the
\* call a temp view of that name bound to the data of that dataframe,
\* whatever was registered before.
C24_ViewBoundForEveryPair ==
  \A n \in Names :
    api.last.dfs[n] # NoName =>
      api.last.views[n] = SqlObjs[api.last.dfs[n]].data

\* ------------------------------- SpecCase: FugueSQL(code, ignore_case)
\* the characters of the codes tried: two letters in both cases, the space
\* and a letter whose upper case is two characters long
SqlChars == {"a", "s", "A", "S", " ", "ß"}
Codes == UNION {[1..n -> SqlChars] : n \in 0..MaxCode}
\* the keywords of the grammar that these letters can spell
Keywords == {<<"A", "S">>}

\* str.upper(), character by character
UpperOf ==
  [c \in SqlChars |->
     CASE c = "a" -> <<"A">>
       [] c = "s" -> <<"S">>
       [] c = "ß" -> <<"S", "S">>
       [] OTHER -> <<c>>]

RECURSIVE upper(_)
upper(code) ==
  IF code = <<>> THEN <<>> ELSE UpperOf[Head(code)] \o upper(Tail(code))

\* code[i:j] of Python, for 0 <= i
Slice(code, i, j) ==
  LET n == IF j < Len(code) THEN j ELSE Len(code) IN
    IF i >= n THEN <<>> ELSE SubSeq(code, i + 1, n)

\* the tokens FugueSQLLexer finds from index i on: the runs of characters
\* between spaces, with the offsets of their first and last character
RECURSIVE FugueSQLLexer(_, _)
FugueSQLLexer(code, i) ==
  IF i > Len(code) THEN <<>>
  ELSE IF code[i] = " " THEN FugueSQLLexer(code, i + 1)
  ELSE LET j == CHOOSE j \in i..Len(code) :
                  /\ \A k \in i..j : code[k] # " "
                  /\ j = Len(code) \/ code[j + 1] = " "
       IN <<[start |-> i - 1, stop |-> j - 1, text |-> SubSeq(code, i, j)]>>
            \o FugueSQLLexer(code, j + 1)

\* the tree of a code, which here is the sequence of its tokens, and the
\* terminal symbols of a tree in order
_to_tree(code) == FugueSQLLexer(code, 1)
_to_tokens(node) == node

_is_keyword(token) == token.text \in Keywords

\* the loop of _to_cased_code over the keyword tokens left
RECURSIVE CasePieces(_, _, _)
CasePieces(code, tokens, start) ==
  IF tokens = <<>>
  THEN IF start < Len(code) THEN Slice(code, start, Len(code)) ELSE <<>>
  ELSE LET t == Head(tokens) IN
         (IF t.start > start THEN Slice(code, start, t.start) ELSE <<>>)
           \o upper(Slice(code, t.start, t.stop + 1))
           \o CasePieces(code, Tail(tokens), t.stop + 1)

_to_cased_code(code) ==
  CasePieces(code, SelectSeq(_to_tokens(_to_tree(upper(code))), _is_keyword), 0)

InitCase ==
  /\ EngineOff
  /\ MapOff
  /\ WorkflowOff
  /\ \E code \in Codes :
       api = [code |-> code, cased |-> <<>>, again |-> <<>>, done |-> FALSE]

\* FugueSQL(code, rule, ignore_case=True), and the normalization applied to
\* its own result
ToCasedCode ==
  /\ ~api.done
  /\ api' = [code |-> api.code, cased |-> _to_cased_code(api.code),
             again |-> _to_cased_code(_to_cased_code(api.code)),
             done |-> TRUE]
  /\ UNCHANGED <<engVars, mapVars, wfVars>>

NextCase == ToCasedCode

SpecCase == InitCase /\ [][NextCase]_vars

\* whether the character at index i of the code lies in a keyword token,
\* case ignored
InKeyword(code, i) ==
  \E n \in DOMAIN _to_tree(code) :
    LET t == _to_tree(code)[n] IN
      /\ t.start + 1 <= i /\ i <= t.stop + 1
      /\ upper(t.text) \in Keywords

\* C25: the normalized code has the length of the code, equals it character
\* for character outside the keyword tokens and equals the upper-cased
\* code inside them, and normalizing it again changes nothing.
C25_OnlyKeywordCaseChanges ==
  api.done =>
    /\ Len(api.cased) = Len(api.code)
    /\ \A i \in 1..Len(api.code) :
         <<api.cased[i]>> = IF InKeyword(api.code, i)
                            THEN upper(<<api.code[i]>>)
                            ELSE <<api.code[i]>>
    /\ api.again = api.cased

\* ------------------------------------------- SpecApi: to_df, join, conf
\* A how string is the sequence of its characters.
LowerCase ==
  <<"a", "b", "c", "d", "e", "f", "g", "h", "i", "j", "k", "l", "m",
    "n", "o", "p", "q", "r", "s", "t", "u", "v", "w", "x", "y", "z">>
UpperCase ==
  <<"A", "B", "C", "D", "E", "F", "G", "H", "I", "J", "K", "L", "M",
    "N", "O", "P", "Q", "R", "S", "T", "U", "V", "W", "X", "Y", "Z">>

\* the characters of the how strings offered
Chars ==
  {LowerCase[n] : n \in 1..Len(LowerCase)}
    \cup {UpperCase[n] : n \in 1..Len(UpperCase)} \cup {"_", " "}

\* str.lower() and str.upper(), character by character
LowerChar ==
  [c \in Chars |->
     IF \E n \in 1..Len(UpperCase) : UpperCase[n] = c
     THEN LowerCase[CHOOSE n \in 1..Len(UpperCase) : UpperCase[n] = c] ELSE c]
UpperChar ==
  [c \in Chars |->
     IF \E n \in 1..Len(LowerCase) : LowerCase[n] = c
     THEN UpperCase[CHOOSE n \in 1..Len(LowerCase) : LowerCase[n] = c] ELSE c]
Lower(str) == [n \in 1..Len(str) |-> LowerChar[str[n]]]
Upper(str) == [n \in 1..Len(str) |-> UpperChar[str[n]]]

\* str.replace(old, "") for a one-character old
Remove(str, old) == SelectSeq(str, LAMBDA c : c # old)

w_inner == <<"i", "n", "n", "e", "r">>
w_left == <<"l", "e", "f", "t">>
w_right == <<"r", "i", "g", "h", "t">>
w_full == <<"f", "u", "l", "l">>
w_outer == <<"o", "u", "t", "e", "r">>
w_cross == <<"c", "r", "o", "s", "s">>
w_semi == <<"s", "e", "m", "i">>
w_anti == <<"a", "n", "t", "i">>
w_bogus == <<"b", "o", "g", "u", "s">>

\* _TO_SPARK_JOIN_MAP
JoinMapKeys ==
  {w_inner, w_left \o w_outer, w_right \o w_outer, w_full \o w_outer, w_cross,
   w_semi, w_anti, w_left \o w_semi, w_left \o w_anti}
_TO_SPARK_JOIN_MAP ==
  [k \in JoinMapKeys |->
     CASE k = w_inner -> "inner"
       [] k = w_left \o w_outer -> "left_outer"
       [] k = w_right \o w_outer -> "right_outer"
       [] k = w_full \o w_outer -> "outer"
       [] k = w_cross -> "cross"
       [] k = w_semi -> "left_semi"
       [] k = w_anti -> "left_anti"
       [] k = w_left \o w_semi -> "left_semi"
       [] k = w_left \o w_anti -> "left_anti"]

\* how.lower().replace("_", "").replace(" ", "")
NormalizeKeepSpaces(how) == Remove(Lower(how), "_")

Normalize(how) == Remove(Remove(Lower(how), "_"), " ")

\* the spellings of a join kind offered to join: its words joined by nothing,
\* an underscore or a space, in lower case, upper case or capitalised
JoinWords ==
  {<<w_inner>>, <<w_left, w_outer>>, <<w_right, w_outer>>, <<w_full, w_outer>>,
   <<w_cross>>, <<w_semi>>, <<w_anti>>, <<w_left, w_semi>>, <<w_left, w_anti>>,
   <<w_outer>>, <<w_left>>, <<w_bogus>>}
Separators == {<<>>, <<"_">>, <<" ">>}
Cases == {"lower", "upper", "title"}

\* the kinds the join contract names: inner, left/right/full outer, cross,
\* semi, anti
AllowList ==
  {<<w_inner>>, <<w_left, w_outer>>, <<w_right, w_outer>>, <<w_full, w_outer>>,
   <<w_cross>>, <<w_semi>>, <<w_anti>>}

Cased(word, case) ==
  CASE case = "lower" -> word
    [] case = "upper" -> Upper(word)
    [] case = "title" -> <<UpperChar[word[1]]>> \o Tail(word)

Spelling(words, sep, case) ==
  IF Len(words) = 1 THEN Cased(words[1], case)
  ELSE Cased(words[1], case) \o sep \o Cased(words[2], case)

\* the objects a caller holds: a SparkDataFrame, another DataFrame, a
\* pyspark DataFrame, an RDD and a list of rows
PsDf(d) == [kind |-> "psdf", data |-> d, bc |-> FALSE]
ApiObjs ==
  <<SparkObj(1, FALSE), OtherObj(2), PsDf(3),
    [kind |-> "rdd", data |-> 3, bc |-> FALSE],
    [kind |-> "list", data |-> 3, bc |-> FALSE]>>
Schemas == {PyNone, PyStr("a:int")}
Metadatas == {PyNone, PyStr("meta")}

\* what a call gives: the engine after it, the dataframe returned, the error
\* raised, the createDataFrame calls made
Raised(e, exc) == [eng |-> e, df |-> NoDf, err |-> exc, conv |-> 0]
Wrapped(e, a, pick, conv) ==
  [eng |-> Alloc(e, pick, SparkObj(e.heap[a].data, FALSE)), df |-> pick,
   err |-> NoErr, conv |-> conv]

to_df_any_unchecked(e, a, schema, metadata, pick) ==
  LET k == e.heap[a].kind IN
    IF k \in {"spark", "other"}
    THEN LET c == to_df(e, a, pick) IN
           [eng |-> c.eng, df |-> c.df, err |-> NoErr,
            conv |-> IF c.tmp THEN 1 ELSE 0]
    ELSE IF k = "psdf" THEN Wrapped(e, a, pick, 0)
    ELSE IF k = "rdd" /\ schema = PyNone THEN Raised(e, "NoneArgumentError")
    ELSE Wrapped(e, a, pick, 1)

\* to_df(df, schema, metadata) for every kind of input
to_df_any(e, a, schema, metadata, pick) ==
  LET k == e.heap[a].kind IN
    IF k \in {"spark", "other"}
    THEN IF schema # PyNone \/ metadata # PyNone
         THEN Raised(e, "ValueError")
         ELSE LET c == to_df(e, a, pick) IN
                [eng |-> c.eng, df |-> c.df, err |-> NoErr,
                 conv |-> IF c.tmp THEN 1 ELSE 0]
    ELSE IF k = "psdf" THEN Wrapped(e, a, pick, 0)
    ELSE IF k = "rdd" /\ schema = PyNone THEN Raised(e, "NoneArgumentError")
    ELSE Wrapped(e, a, pick, 1)

\* get_join_schemas(df1, df2, how, on): the key schema and the output schema,
\* read off the schemas of the two inputs
get_join_schemas(e, a1, a2, how) ==
  [key_schema |-> PyStr("key_schema"), output_schema |-> PyStr("output_schema")]

\* the inputs converted, the backend join made and its result wrapped
Joined(e, a1, a2, kind, output_schema, metadata) ==
  LET r1 == to_df_any(e, a1, PyNone, PyNone, Pick(e, FALSE))
      r2 == to_df_any(r1.eng, a2, PyNone, PyNone, Pick(r1.eng, FALSE))
      res == Pick(r2.eng, FALSE)
      e3 == Alloc(r2.eng, res, PsDf(e.heap[a1].data))
      r4 == to_df_any(e3, res, output_schema, metadata, Pick(e3, FALSE))
  IN [eng |-> r4.eng, df |-> r4.df, err |-> NoErr, kind |-> kind,
      backend |-> <<IF kind = "cross" THEN "crossJoin" ELSE "join">>,
      conv |-> r1.conv + r2.conv]

join_late_check(e, a1, a2, how, metadata) ==
  LET js == get_join_schemas(e, a1, a2, how)
      h == Normalize(how)
      r1 == to_df_any(e, a1, PyNone, PyNone, Pick(e, FALSE))
      r2 == to_df_any(r1.eng, a2, PyNone, PyNone, Pick(r1.eng, FALSE))
  IN IF h \notin DOMAIN _TO_SPARK_JOIN_MAP
     THEN [eng |-> r2.eng, df |-> NoDf, err |-> "ValueError", kind |-> "none",
           backend |-> <<>>, conv |-> r1.conv + r2.conv]
     ELSE Joined(e, a1, a2, _TO_SPARK_JOIN_MAP[h], js.output_schema, metadata)

\* SparkExecutionEngine.join
join(e, a1, a2, how, metadata) ==
  LET js == get_join_schemas(e, a1, a2, how)
      h == Normalize(how)
  IN IF h \notin DOMAIN _TO_SPARK_JOIN_MAP
     THEN [eng |-> e, df |-> NoDf, err |-> "ValueError", kind |-> "none",
           backend |-> <<>>, conv |-> 0]
     ELSE Joined(e, a1, a2, _TO_SPARK_JOIN_MAP[h], js.output_schema, metadata)

\* the configuration: a layer gives a key a value or leaves it out
ConfKeys == {"fugue.spark.use_pandas_udf"}
Absent == "absent"
FUGUE_SPARK_DEFAULT_CONF == [k \in ConfKeys |-> "default"]
SessionConfs == [ConfKeys -> {Absent, "session"}]
RunConfs == [ConfKeys -> {Absent, "run"}]

\* dict.update
Update(cf, layer) == [k \in ConfKeys |-> IF layer[k] # Absent THEN layer[k] ELSE cf[k]]

\* SparkExecutionEngine.__init__: the defaults, updated with the session's
\* configuration, updated with the conf argument
EngineConf(session, conf) ==
  Update(Update(FUGUE_SPARK_DEFAULT_CONF, session), conf)

NoCall ==
  [op |-> "__init__", a |-> 0, a2 |-> 0, kind |-> "none", schema |-> PyNone,
   metadata |-> PyNone, words |-> <<>>, sep |-> <<>>, how |-> <<>>,
   join |-> "none", backend |-> <<>>, err |-> NoErr, df |-> NoDf,
   again |-> NoDf, conv |-> 0, conv2 |-> 0, made |-> 0]

InitApi ==
  /\ MapOff
  /\ WorkflowOff
  /\ eng = EngInit(ApiObjs)
  /\ thr = [i \in Threads |-> Idle]
  /\ holder = [op \in Ops |-> [k \in Addr |-> 0]]
  /\ rets = [op \in Ops |-> [d \in DFs |-> <<>>]]
  /\ ncalls = 0
  /\ api = [session |-> [k \in ConfKeys |-> Absent],
            run |-> [k \in ConfKeys |-> Absent],
            conf |-> EngineConf([k \in ConfKeys |-> Absent],
                                [k \in ConfKeys |-> Absent]),
            last |-> NoCall]

\* SparkExecutionEngine(spark_session, conf): the caller makes a new engine
\* over a session that has its own configuration
NewEngine ==
  /\ \E session \in SessionConfs, conf \in RunConfs :
       api' = [session |-> session, run |-> conf,
               conf |-> EngineConf(session, conf), last |-> NoCall]
  /\ UNCHANGED <<engVars, mapVars, wfVars>>

\* the caller converts one of its objects and then converts the result
\* again; it keeps neither result
ToDf ==
  \E a \in 1..Len(ApiObjs), schema \in Schemas, metadata \in Metadatas :
    /\ eng.heap[a].kind = "list" => schema # PyNone
    /\ LET r1 == to_df_any(eng, a, schema, metadata, Pick(eng, FALSE))
           r2 == IF r1.err # NoErr THEN r1
                 ELSE to_df_any(r1.eng, r1.df, PyNone, PyNone,
                                Pick(r1.eng, FALSE))
       IN api' = [api EXCEPT !.last =
                    [NoCall EXCEPT !.op = "to_df", !.a = a,
                       !.kind = eng.heap[a].kind, !.schema = schema,
                       !.metadata = metadata, !.err = r1.err, !.df = r1.df,
                       !.again = r2.df, !.conv = r1.conv, !.conv2 = r2.conv,
                       !.made = r1.eng.hw - eng.hw]]
    /\ UNCHANGED <<engVars, mapVars, wfVars>>

\* the caller joins two of its dataframes with some spelling of a join kind;
\* it does not keep the result
Join ==
  \E a1, a2 \in {1, 2}, words \in JoinWords, sep \in Separators, case \in Cases :
    /\ a1 # a2
    /\ Len(words) = 1 => sep = <<>>
    /\ LET how == Spelling(words, sep, case)
           r == join(eng, a1, a2, how, PyNone)
       IN api' = [api EXCEPT !.last =
                    [NoCall EXCEPT !.op = "join", !.a = a1, !.a2 = a2,
                       !.words = words, !.sep = sep, !.how = how,
                       !.join = r.kind, !.backend = r.backend, !.err = r.err,
                       !.df = r.df, !.conv = r.conv,
                       !.made = r.eng.hw - eng.hw]]
    /\ UNCHANGED <<engVars, mapVars, wfVars>>

NextApi == NewEngine \/ ToDf \/ Join

SpecApi == InitApi /\ [][NextApi]_vars

BackendKinds ==
  {"inner", "left_outer", "right_outer", "outer", "cross", "left_semi",
   "left_anti"}

\* how strings that differ from how only in letter case, underscores or
\* spaces, among those a caller may write
Respellings(words) ==
  {Spelling(words, sep, case) : sep \in Separators, case \in Cases}

\* C14: the backend join kind selected for a how string is the one join
\* selects for every string that differs from it only in letter case,
\* underscores or spaces (or all are rejected), and every kind of the
\* allow-list is accepted and mapped to a backend kind.
C14_JoinKindNormalized ==
  api.last.op = "join" =>
    /\ api.last.words \in AllowList =>
         api.last.err = NoErr /\ api.last.join \in BackendKinds
    /\ \A how \in Respellings(api.last.words) :
         LET r == join(eng, api.last.a, api.last.a2, how, PyNone) IN
           r.kind = api.last.join /\ r.err = api.last.err

\* "left_outer" gave left_outer, which is what "LEFTOUTER" gives
C14_Witness ==
  /\ api.last.op = "join"
  /\ api.last.words = <<w_left, w_outer>> /\ api.last.sep = <<"_">>
  /\ api.last.join = "left_outer"
  /\ join(eng, api.last.a, api.last.a2, Upper(w_left \o w_outer),
          PyNone).kind = "left_outer"

\* C15: a join whose normalized how is not in the allow-list fails with the
\* error of the validation, no input has been converted, no backend join
\* made and no object created.
C15_RejectedJoinDoesNothing ==
  (api.last.op = "join" /\ Normalize(api.last.how) \notin JoinMapKeys) =>
    /\ api.last.err = "ValueError"
    /\ api.last.conv = 0 /\ api.last.backend = <<>> /\ api.last.made = 0
    /\ api.last.df = NoDf

\* "bogus" was rejected for two inputs of which one would need a conversion
C15_Witness ==
  /\ api.last.op = "join" /\ api.last.words = <<w_bogus>>
  /\ api.last.err = "ValueError"
  /\ eng.heap[api.last.a].kind = "other"

\* C17: to_df of a SparkDataFrame given without schema and metadata returns
\* that very object and converts nothing, and to_df applied to the result of
\* any successful to_df returns the same object again without a conversion.
C17_ToDfIdempotent ==
  (api.last.op = "to_df" /\ api.last.err = NoErr) =>
    /\ api.last.kind = "spark" =>
         api.last.df = api.last.a /\ api.last.conv = 0 /\ api.last.made = 0
    /\ api.last.again = api.last.df /\ api.last.conv2 = 0

\* to_df of a DataFrame that is not native made a new object, and to_df of
\* that object gave it back
C17_Witness ==
  /\ api.last.op = "to_df" /\ api.last.err = NoErr
  /\ api.last.kind = "other" /\ api.last.df # api.last.a
  /\ api.last.again = api.last.df

\* C18: to_df of a DataFrame, native or not, together with a schema or
\* metadata fails, and nothing has been converted or created.
C18_TypedWithSchemaFails ==
  (api.last.op = "to_df" /\ api.last.kind \in {"spark", "other"}
     /\ (api.last.schema # PyNone \/ api.last.metadata # PyNone)) =>
    /\ api.last.err = "ValueError"
    /\ api.last.conv = 0 /\ api.last.made = 0 /\ api.last.df = NoDf

\* a SparkDataFrame given with a schema was refused
C18_Witness ==
  /\ api.last.op = "to_df" /\ api.last.kind = "spark"
  /\ api.last.schema # PyNone /\ api.last.err = "ValueError"

\* C19: for a key present in several layers the merged configuration holds
\* the session's value if the session has one, else the run-supplied value
\* if there is one, else the default.
C19_SessionOverRunOverDefault ==
  \A k \in ConfKeys :
    api.conf[k] =
      IF api.session[k] # Absent THEN api.session[k]
      ELSE IF api.run[k] # Absent THEN api.run[k]
      ELSE FUGUE_SPARK_DEFAULT_CONF[k]

\* ------------------------------------------ SpecMap: the map strategies
Parts == 0..(NParts - 1)
Keys == {"k1", "k2"}
KeyRank(k) == IF k = "k1" THEN 1 ELSE 2
OutputSchema == "output_schema"

\* the rows of a physical partition, each row standing for its partition
\* key: in any order when the partition spec is empty, else sorted by key, as
\* repartition leaves them (sortWithinPartitions on the partition keys)
RowSeqs == UNION {[1..n -> Keys] : n \in 0..MaxRows}
Sorted(rows) ==
  \A j \in 1..Len(rows) :
    \A k \in 1..Len(rows) : j < k => KeyRank(rows[j]) <= KeyRank(rows[k])
RowSeqsOf(m) == IF m.empty THEN RowSeqs ELSE {r \in RowSeqs : Sorted(r)}

\* map: the vectorized strategy is taken when the configuration asks for it
\* and there are partition-by columns (the output schema is not nested)
Vectorized(m) == m.use_pandas_udf /\ ~m.empty

\* the sub-partitions of a physical partition: the whole partition when the
\* partition spec is empty, else the contiguous runs of equal partition keys
RECURSIVE Groups(_)
Groups(rows) ==
  IF rows = <<>> THEN <<>>
  ELSE LET n == CHOOSE m \in 1..Len(rows) :
                  /\ \A j \in 1..m : rows[j] = rows[1]
                  /\ (m = Len(rows) \/ rows[m + 1] # rows[1])
       IN <<SubSeq(rows, 1, n)>> \o Groups(SubSeq(rows, n + 1, Len(rows)))

RECURSIVE Concat(_)
Concat(ss) == IF ss = <<>> THEN <<>> ELSE Head(ss) \o Concat(Tail(ss))

Partitions(m, rows) == IF m.empty THEN <<rows>> ELSE Groups(rows)

\* the cursor of the g-th sub-partition: cursor.set(sub.peek(), pn, sn)
CursorOf(m, no, parts, g) ==
  [no |-> no, pn |-> IF m.empty THEN 0 ELSE g - 1, sn |-> 0,
   peek |-> parts[g][1], rows |-> parts[g]]

\* _Mapper.run(no, rows) consumed up to its upto-th sub-partition: what is
\* appended to the on_init calls and to the map_func calls, the rows yielded
\* (map_func is taken to return the rows it is given)
MapperRunNoEmptyCheck(m, no, rows, upto) ==
  LET parts == Partitions(m, rows) IN
    [inits |-> IF m.on_init THEN <<no>> ELSE <<>>,
     maps |-> [g \in 1..upto |->
                 IF parts[g] = <<>>
                 THEN [no |-> no, pn |-> 0, sn |-> 0, peek |-> "none",
                       rows |-> <<>>]
                 ELSE CursorOf(m, no, parts, g)],
     out |-> Concat(SubSeq(parts, 1, upto))]

MapperRun(m, no, rows, upto) ==
  IF rows = <<>>
  THEN [inits |-> <<>>, maps |-> <<>>, out |-> <<>>]
  ELSE LET parts == Partitions(m, rows) IN
    [inits |-> IF m.on_init THEN <<no>> ELSE <<>>,
     maps |-> [g \in 1..upto |-> CursorOf(m, no, parts, g)],
     out |-> Concat(SubSeq(parts, 1, upto))]

\* the vectorized strategy before any task has run: per partition, the
\* attempts, the groups already handed to _udf in the current attempt, the
\* store of on_init_once in the copy of the closure that serves the attempt,
\* the on_init and map_func calls made, and the last result of _udf
VecInit ==
  [att |-> [p \in Parts |-> 0],
   done |-> [p \in Parts |-> 0],
   store |-> [p \in Parts |-> FALSE],
   inits |-> [p \in Parts |-> <<>>],
   maps |-> [p \in Parts |-> <<>>],
   last |-> [p \in Parts |-> [schema |-> "none", rows |-> <<>>, empty |-> FALSE]]]

\* _udf(pdf) in the task of physical partition p. on_init_once is keyed by
\* to_uuid(id(on_init), id(0)), one key for every call, so only the first
\* call of a copy of the closure reaches on_init
_udf(v, m, p, pdf) ==
  IF pdf = <<>>
  THEN [v EXCEPT !.last[p] = [schema |-> OutputSchema, rows |-> <<>>,
                              empty |-> TRUE]]
  ELSE LET cursor == [no |-> 0, pn |-> 0, sn |-> 0, peek |-> pdf[1],
                      rows |-> pdf]
       IN [v EXCEPT
             !.store[p] = @ \/ m.on_init,
             !.inits[p] = IF m.on_init /\ ~v.store[p]
                          THEN Append(@, [no |-> 0, rows |-> pdf]) ELSE @,
             !.maps[p] = Append(@, cursor),
             !.last[p] = [schema |-> OutputSchema, rows |-> pdf,
                          empty |-> FALSE]]

InitMap ==
  /\ EngineOff
  /\ WorkflowOff
  /\ ApiOff
  /\ mapper \in [empty : BOOLEAN, on_init : BOOLEAN, use_pandas_udf : BOOLEAN]
  /\ prows \in [Parts -> RowSeqsOf(mapper)]
  /\ attempts = [p \in Parts |-> 0]
  /\ initCalls = <<>>
  /\ mapCalls = <<>>
  /\ yielded = [p \in Parts |-> <<>>]
  /\ vec = VecInit

\* the backend runs (or re-runs) physical partition p; the run is consumed to
\* the end, or the attempt dies after upto sub-partitions
Run(p) ==
  /\ ~Vectorized(mapper)
  /\ attempts[p] < MaxAttempts
  /\ \E upto \in 0..Len(Partitions(mapper, prows[p])) :
       LET r == MapperRun(mapper, p, prows[p], upto) IN
         /\ initCalls' = initCalls \o r.inits
         /\ mapCalls' = mapCalls \o r.maps
         /\ yielded' = [yielded EXCEPT ![p] = r.out]
  /\ attempts' = [attempts EXCEPT ![p] = @ + 1]
  /\ UNCHANGED <<mapper, prows, vec>>
  /\ UNCHANGED <<engVars, wfVars, apiVars>>

\* the backend starts (or restarts) the task of physical partition p with a
\* new copy of the pickled closure, whose on_init_once store is empty
UdfStart(p) ==
  /\ Vectorized(mapper)
  /\ vec.att[p] < MaxAttempts
  /\ vec.att[p] = 0 \/ vec.done[p] > 0
  /\ vec' = [vec EXCEPT !.att[p] = @ + 1, !.done[p] = 0, !.store[p] = FALSE]
  /\ UNCHANGED <<mapper, prows, attempts, initCalls, mapCalls, yielded>>
  /\ UNCHANGED <<engVars, wfVars, apiVars>>

\* the backend hands the next key group of partition p to _udf
UdfGroup(p) ==
  /\ Vectorized(mapper)
  /\ vec.att[p] > 0
  /\ vec.done[p] < Len(Groups(prows[p]))
  /\ vec' = [_udf(vec, mapper, p, Groups(prows[p])[vec.done[p] + 1])
               EXCEPT !.done[p] = @ + 1]
  /\ UNCHANGED <<mapper, prows, attempts, initCalls, mapCalls, yielded>>
  /\ UNCHANGED <<engVars, wfVars, apiVars>>

\* the backend calls _udf with an empty frame (nothing to group in p)
UdfEmpty(p) ==
  /\ Vectorized(mapper)
  /\ vec.att[p] > 0
  /\ prows[p] = <<>>
  /\ ~vec.last[p].empty
  /\ vec' = _udf(vec, mapper, p, <<>>)
  /\ UNCHANGED <<mapper, prows, attempts, initCalls, mapCalls, yielded>>
  /\ UNCHANGED <<engVars, wfVars, apiVars>>

NextMap ==
  \E p \in Parts :
    \/ Run(p)
    \/ UdfStart(p)
    \/ UdfGroup(p)
    \/ UdfEmpty(p)

SpecMap == InitMap /\ [][NextMap]_vars

Occurrences(seq, x) == Cardinality({n \in 1..Len(seq) : seq[n] = x})

\* C4: over any sequence of runs and retries of _Mapper.run for partition
\* number n, on_init is invoked at most once with partition number n.
C4_OnInitOncePerPartition ==
  \A p \in Parts : Occurrences(initCalls, p) <= 1

RowCalls(p) == SelectSeq(mapCalls, LAMBDA c : c.no = p)
InitArgs(p) == [n \in 1..Len(vec.inits[p]) |-> vec.inits[p][n].no]

\* C11: with an on-init hook, under either strategy, on-init is invoked
\* exactly once for each non-empty physical partition that has been
\* processed, whatever the number of its key groups, and the map callback is
\* not invoked on a partition on which on-init was not.
C11_OnInitOncePerNonEmptyPartition ==
  mapper.on_init =>
    \A p \in Parts :
      /\ (~Vectorized(mapper) /\ attempts[p] > 0 /\ prows[p] # <<>>)
           => Occurrences(initCalls, p) = 1
      /\ RowCalls(p) # <<>> => Occurrences(initCalls, p) >= 1
      /\ (Vectorized(mapper) /\ vec.done[p] > 0) => Len(vec.inits[p]) = 1
      /\ vec.maps[p] # <<>> => vec.inits[p] # <<>>

\* C12: an empty input partition (row-stream) or an empty group (vectorized)
\* invokes neither on-init nor the map callback and yields no rows, and the
\* vectorized strategy returns an empty result with the declared output
\* schema; the callbacks are never handed an empty frame.
C12_EmptyPartitionIsSkipped ==
  /\ \A n \in 1..Len(mapCalls) : mapCalls[n].rows # <<>>
  /\ \A p \in Parts :
       /\ \A n \in 1..Len(vec.maps[p]) : vec.maps[p][n].rows # <<>>
       /\ \A n \in 1..Len(vec.inits[p]) : vec.inits[p][n].rows # <<>>
       /\ prows[p] = <<>> =>
            /\ yielded[p] = <<>>
            /\ Occurrences(initCalls, p) = 0
            /\ RowCalls(p) = <<>>
            /\ vec.inits[p] = <<>> /\ vec.maps[p] = <<>>
       /\ vec.last[p].empty =>
            vec.last[p].schema = OutputSchema /\ vec.last[p].rows = <<>>

\* _udf has been called with an empty frame for a partition, while another
\* partition of the same map has had its groups processed with on-init
C12_Witness ==
  /\ mapper.on_init
  /\ \E p, q \in Parts :
       /\ prows[p] = <<>> /\ vec.last[p].empty
       /\ vec.inits[q] # <<>> /\ vec.maps[q] # <<>>

\* C13: for an input with partition-by columns, a partition processed once
\* and to the end by the vectorized strategy has seen the map callback
\* invoked with the same rows and cursor values, and on-init with the same
\* partition-index arguments, as _Mapper.run makes on the same partition.
C13_StrategiesEquivalent ==
  \A p \in Parts :
    (Vectorized(mapper) /\ vec.att[p] = 1
       /\ vec.done[p] = Len(Groups(prows[p])))
    => LET r == MapperRun(mapper, p, prows[p], Len(Groups(prows[p]))) IN
         /\ vec.maps[p] = r.maps
         /\ InitArgs(p) = r.inits

====
